---- MODULE Spec2Model ----
(***************************************************************************)
(* A model of bot_pg.py: the Telegram conversation handlers of the video   *)
(* rating bot and the "videos" table they read and write.                  *)
(*                                                                         *)
(* A text is a sequence of one-character strings, so that str.split,      *)
(* str.strip, int() and URL_REGEX.match can be computed as Python does.    *)
(*                                                                         *)
(* An action is one handler run from its update to its return: main builds *)
(* the Application without concurrent_updates, so an update is handled to  *)
(* the end before the next one is taken, and users interleave update by    *)
(* update.  Every SQL statement is one statement of PostgreSQL and is      *)
(* atomic.                                                                 *)
(*                                                                         *)
(* A row of videos is modelled without its id: no handler reads the id,    *)
(* and link is UNIQUE, so the table is a set of rows.  avg_score, a FLOAT, *)
(* is the quotient as a fraction in lowest terms.                          *)
(*                                                                         *)
(* post_init stores what get_db_pool returns, a pool or None, in bot_data; *)
(* every handler reads it again and has a branch for "no pool".  The model *)
(* keeps both outcomes: db_pool is chosen at start-up and never changes.   *)
(***************************************************************************)
EXTENDS Integers, Sequences, FiniteSets, TLC

----------------------------------------------------------------------------
(* Bounds of the model *)

\* ratings one row may receive before the model stops rating it
MaxRatings == 2
\* comments one row may receive before the model stops commenting it
MaxComments == 2

----------------------------------------------------------------------------
(* Characters *)

Lower == {"a","b","c","d","e","f","g","h","i","j","k","l","m",
          "n","o","p","q","r","s","t","u","v","w","x","y","z"}
Upper == {"A","B","C","D","E","F","G","H","I","J","K","L","M",
          "N","O","P","Q","R","S","T","U","V","W","X","Y","Z"}
Digit == {"0","1","2","3","4","5","6","7","8","9"}
AlNum == Lower \cup Upper \cup Digit
\* str.split() and str.strip() without arguments act on whitespace
Whitespace == {" ", "\n", "\t"}
\* \w of the re module, as far as the alphabet of the model goes
WordChar == AlNum \cup {"_"}

\* the three character classes of URL_REGEX
HostChar == AlNum \cup {"-", "@", ":", "%", ".", "_", "+", "~", "#", "="}
TldChar == AlNum \cup {"(", ")"}
PathChar == AlNum \cup {"-", "(", ")", "@", ":", "%", "_", "+", ".", "~",
                        "#", "?", "&", "/", "="}
\* the repetition counts {1,256} and {1,6} of URL_REGEX
HostMax == 256
TldMax == 6

----------------------------------------------------------------------------
(* Text functions *)

Min(a, b) == IF a <= b THEN a ELSE b

AllIn(s, i, j, class) == \A k \in i..j : s[k] \in class

\* s starts with p at position i (1-based)
StartsAt(s, i, p) ==
    /\ i + Len(p) - 1 <= Len(s)
    /\ SubSeq(s, i, i + Len(p) - 1) = p

RECURSIVE LStrip(_)
LStrip(s) == IF s # <<>> /\ Head(s) \in Whitespace THEN LStrip(Tail(s)) ELSE s

RECURSIVE RStrip(_)
RStrip(s) ==
    IF s # <<>> /\ s[Len(s)] \in Whitespace
    THEN RStrip(SubSeq(s, 1, Len(s) - 1))
    ELSE s

\* str.strip()
Strip(s) == RStrip(LStrip(s))

\* the length of the first run of non-whitespace characters of s
RECURSIVE TokenLen(_)
TokenLen(s) ==
    IF s = <<>> \/ Head(s) \in Whitespace THEN 0 ELSE 1 + TokenLen(Tail(s))

\* str.split(): the maximal runs of non-whitespace characters, in order
RECURSIVE Split(_)
Split(s) ==
    LET t == LStrip(s)
        n == TokenLen(t)
    IN  IF t = <<>> THEN <<>>
        ELSE <<SubSeq(t, 1, n)>> \o Split(SubSeq(t, n + 1, Len(t)))

\* \b between s[p] and s[p+1]; outside the string counts as a non-word
WordBoundary(s, p) ==
    LET before == p >= 1 /\ p <= Len(s) /\ s[p] \in WordChar
        after == p + 1 <= Len(s) /\ s[p + 1] \in WordChar
    IN  before # after

SchemeHttp == <<"h","t","t","p",":","/","/">>
SchemeHttps == <<"h","t","t","p","s",":","/","/">>
Www == <<"w","w","w",".">>

\* the match of URL_REGEX from host start hs: the host class up to a dot at
\* d, the tld class up to e, a word boundary, the path class to the end
MatchFromHost(s, hs) ==
    \E d \in (hs + 1)..Len(s) :
      /\ d - hs <= HostMax
      /\ AllIn(s, hs, d - 1, HostChar)
      /\ s[d] = "."
      /\ \E e \in (d + 1)..Min(d + TldMax, Len(s)) :
           /\ AllIn(s, d + 1, e, TldChar)
           /\ WordBoundary(s, e)
           /\ AllIn(s, e + 1, Len(s), PathChar)

\* the match of URL_REGEX after the scheme, which ends at position p
MatchAfterScheme(s, p) ==
    \/ StartsAt(s, p + 1, Www) /\ MatchFromHost(s, p + 1 + Len(Www))
    \/ MatchFromHost(s, p + 1)

\* URL_REGEX.match(s) is not None, for a token s without a newline
URL_REGEX(s) ==
    \/ StartsAt(s, 1, SchemeHttp) /\ MatchAfterScheme(s, Len(SchemeHttp))
    \/ StartsAt(s, 1, SchemeHttps) /\ MatchAfterScheme(s, Len(SchemeHttps))

DigitValue(c) ==
    CASE c = "0" -> 0 [] c = "1" -> 1 [] c = "2" -> 2 [] c = "3" -> 3
      [] c = "4" -> 4 [] c = "5" -> 5 [] c = "6" -> 6 [] c = "7" -> 7
      [] c = "8" -> 8 [] c = "9" -> 9

\* the digits of an int() literal: digits with single underscores between
IsDigits(s) ==
    /\ s # <<>>
    /\ s[1] \in Digit
    /\ s[Len(s)] \in Digit
    /\ \A k \in 1..Len(s) : s[k] \in Digit \cup {"_"}
    /\ \A k \in 1..(Len(s) - 1) : ~(s[k] = "_" /\ s[k + 1] = "_")

RECURSIVE DigitsValue(_, _)
DigitsValue(s, acc) ==
    IF s = <<>> THEN acc
    ELSE IF Head(s) = "_" THEN DigitsValue(Tail(s), acc)
    ELSE DigitsValue(Tail(s), 10 * acc + DigitValue(Head(s)))

\* the unsigned part of the literal int() reads
IntBody(s) ==
    LET t == Strip(s)
    IN  IF t # <<>> /\ t[1] \in {"+", "-"} THEN Tail(t) ELSE t

\* int(s) raises ValueError
IntRaises(s) == ~IsDigits(IntBody(s))

\* int(s), where it does not raise
IntValue(s) ==
    LET t == Strip(s)
        v == DigitsValue(IntBody(s), 0)
    IN  IF t[1] = "-" THEN 0 - v ELSE v

RECURSIVE Gcd(_, _)
Gcd(a, b) == IF b = 0 THEN a ELSE Gcd(b, a % b)

\* a::FLOAT / b of two small non-negative integers, b > 0: the quotient, kept
\* as the fraction in lowest terms (two such quotients are the same double
\* exactly when they are the same fraction)
FloatDiv(a, b) ==
    LET g == Gcd(a, b)
    IN  <<a \div g, b \div g>>

\* the FLOAT 0 of DEFAULT 0
FloatZero == <<0, 1>>

----------------------------------------------------------------------------
(* Inputs *)

\* the ids of the users who write to the bot
Users == {1, 2}

Range(f) == {f[i] : i \in DOMAIN f}

\* n copies of the character c
Rep(c, n) == [i \in 1..n |-> c]

\* "http://a.co", and "https://www.b.c", which is MinComment characters long
LinkA == SchemeHttp \o <<"a",".","c","o">>
LinkB == SchemeHttps \o Www \o <<"b",".","c">>
\* no scheme
BadToken == <<"a",".","c","o">>
\* no dot after the host
NoTld == SchemeHttp \o <<"a">>

\* the texts sent while the bot waits for links: one link, two links, a
\* link before a malformed token, a malformed token alone
LinkTexts ==
    { LinkA,
      LinkA \o <<" ">> \o LinkB,
      <<"\n">> \o LinkA \o <<" ">> \o BadToken,
      NoTld }

\* the texts sent while the bot waits for a score
ScoreTexts == { <<"0">>, <<"1">>, <<"1","0">>, <<" ","1","0">>, <<"1","1">>, BadToken }

\* the texts sent while the bot waits for a comment: 15 characters, 14
\* characters between two spaces, 2 characters
CommentTexts == { LinkB, <<" ">> \o Rep("b", 14) \o <<" ">>, <<"o","k">> }

\* the commands
CommandTexts ==
    { <<"/","c","a","n","c","e","l">>,
      <<"/","s","t","a","r","t">>,
      <<"/","a","d","d","_","a","d","m","i","n">>,
      <<"/","a","d","d","_","a","d","m","i","n"," ","2">>,
      <<"/","a","d","d","_","a","d","m","i","n"," ","x">> }

Texts == LinkTexts \cup ScoreTexts \cup CommentTexts \cup CommandTexts

\* the tokens of the texts, and the well-formed links among them
Tokens == UNION {Range(Split(x)) : x \in Texts}
Links == {t \in Tokens : URL_REGEX(t)}

\* context.user_data.get("current_video") before any video was offered
None == <<>>

----------------------------------------------------------------------------
(* State *)

VARIABLES
    videos,         \* the rows of table videos
    stage,          \* the conversation state of conv_handler, per user
    current_video,  \* context.user_data["current_video"], per user
    ADMIN_IDS,      \* the global list of administrators
    db_pool,        \* whether bot_data["db_pool"] is a pool
    sent,           \* what the handler of the last update sent to its user
    accepted        \* history: per link, the number and the sum of the scores
                    \* receive_rating wrote for it since its row was created

vars == <<videos, stage, current_video, ADMIN_IDS, db_pool, sent, accepted>>

\* range(3), and ConversationHandler.END
WAITING_VIDEO_LINKS == 0
WAITING_SCORE == 1
WAITING_COMMENT == 2
END == -1

\* the minimal length of a comment
MinComment == 15
\* the range of a rating
MinRating == 1
MaxRating == 10

\* the row INSERT INTO videos (link) creates: the column defaults
NewRow(link) ==
    [link |-> link, total_score |-> 0, ratings_count |-> 0,
     avg_score |-> FloatZero, comments |-> <<>>]

NoTally == [n |-> 0, sum |-> 0]

\* nothing was sent
Nothing == [via |-> "", msgs |-> <<>>, links |-> <<>>, doc |-> {}]

Init ==
    /\ videos = {}
    /\ stage = [u \in Users |-> END]
    /\ current_video = [u \in Users |-> None]
    /\ ADMIN_IDS = <<1>>
    /\ db_pool \in BOOLEAN
    /\ sent = Nothing
    /\ accepted = [l \in Links |-> NoTally]

----------------------------------------------------------------------------
(* Statements on table videos *)

\* mutant: the INSERT without ON CONFLICT (link) DO NOTHING
InsertLinkAlways(rows, link) == rows \cup {NewRow(link)}

\* INSERT INTO videos (link) VALUES ($1) ON CONFLICT (link) DO NOTHING
InsertLink(rows, link) ==
    IF \E r \in rows : r.link = link THEN rows ELSE rows \cup {NewRow(link)}

\* the for loop of receive_video_links over the submitted links
RECURSIVE InsertLinks(_, _)
InsertLinks(rows, links) ==
    IF links = <<>> THEN rows
    ELSE InsertLinks(InsertLink(rows, Head(links)), Tail(links))

\* mutant: avg_score divides the total before the new score was added
RatedRowOldTotal(r, rating) ==
    [r EXCEPT !.total_score = r.total_score + rating,
              !.ratings_count = r.ratings_count + 1,
              !.avg_score = FloatDiv(r.total_score, r.ratings_count + 1)]

\* mutant: avg_score is left as it was
RatedRowStaleAvg(r, rating) ==
    [r EXCEPT !.total_score = r.total_score + rating,
              !.ratings_count = r.ratings_count + 1]

\* mutant: the row is left with no rating
RatedRowNotCounted(r, rating) == r

\* the SET clause of the UPDATE of receive_rating, on one row
RatedRow(r, rating) ==
    [r EXCEPT !.total_score = r.total_score + rating,
              !.ratings_count = r.ratings_count + 1,
              !.avg_score = FloatDiv(r.total_score + rating, r.ratings_count + 1)]

\* mutant: a read-then-write pair, which writes the aggregates from the values
\* read when the video was offered (an unrated row: zeros)
UpdateRatingFromOffer(rows, rating, link) ==
    {IF r.link = link
     THEN [r EXCEPT !.total_score = rating, !.ratings_count = 1,
                    !.avg_score = FloatDiv(rating, 1)]
     ELSE r : r \in rows}

\* mutant: the score is kept for the comment step and no row is written
UpdateRatingHeld(rows, rating, link) == rows

\* UPDATE videos SET ... WHERE link = $2, of receive_rating
UpdateRating(rows, rating, link) ==
    {IF r.link = link THEN RatedRow(r, rating) ELSE r : r \in rows}

\* mutant: the UPDATE of receive_comment without its WHERE clause
AppendCommentAll(rows, comment, link) ==
    {[r EXCEPT !.comments = Append(r.comments, comment)] : r \in rows}

\* UPDATE videos SET comments = array_append(comments, $1) WHERE link = $2
AppendComment(rows, comment, link) ==
    {IF r.link = link THEN [r EXCEPT !.comments = Append(r.comments, comment)]
     ELSE r : r \in rows}

\* mutant: the SELECT without WHERE ratings_count = 0
SelectAny(rows) ==
    LET found == {r.link : r \in rows}
    IN  IF found = {} THEN {None} ELSE found

\* SELECT link FROM videos WHERE ratings_count = 0 LIMIT 1: the rows fetchrow
\* may return (no ORDER BY: any matching row), None when none matches
SelectUnrated(rows) ==
    LET found == {r.link : r \in {x \in rows : x.ratings_count = 0}}
    IN  IF found = {} THEN {None} ELSE found

\* mutant: DELETE FROM videos WHERE ratings_count > 0
DeleteRated(rows) == {r \in rows : r.ratings_count = 0}

\* TRUNCATE TABLE videos
Truncate(rows) == {}

----------------------------------------------------------------------------
(* Dispatch *)

\* filters.TEXT & ~filters.COMMAND
TextFilter(text) == text # <<>> /\ text[1] # "/"

\* text.split() of every text, computed once
SplitOf == [t \in Texts |-> Split(t)]

\* CommandHandler(name): the message starts with the command /name
IsCommand(text, name) ==
    /\ SplitOf[text] # <<>>
    /\ Head(SplitOf[text]) = <<"/">> \o name

CmdStart == <<"s","t","a","r","t">>
CmdCancel == <<"c","a","n","c","e","l">>
CmdAddAdmin == <<"a","d","d","_","a","d","m","i","n">>

\* context.args of a command: the tokens after the command
Args(text) == Tail(SplitOf[text])

\* mutant: the handler does not check the user
NoAdminCheck(u) == TRUE

\* update.effective_user.id in ADMIN_IDS
IsAdmin(u) == u \in Range(ADMIN_IDS)

\* update.message.reply_text: the handler of a message answers it with msgs
Reply(msgs) ==
    sent' = [via |-> "message", msgs |-> msgs, links |-> <<>>, doc |-> {}]

\* update.callback_query.answer or update.callback_query.message.reply_text:
\* the handler of a pressed button answers it with msgs
Answer(msgs) ==
    sent' = [via |-> "callback", msgs |-> msgs, links |-> <<>>, doc |-> {}]

\* an answer whose text shows links, or which carries the rows as a document
Send(via, msgs, links, doc) ==
    sent' = [via |-> via, msgs |-> msgs, links |-> links, doc |-> doc]

\* mutant: the state of the conversation is kept once for all users
ReturnForAll(u, st) == stage' = [v \in Users |-> st]

\* the handler returns state st to conv_handler
Return(u, st) == stage' = [stage EXCEPT ![u] = st]

\* mutant: without a pool the handler returns the state it is registered for
NoPoolReturnSame(st) == st

\* what the handlers return when there is no pool; st is the state the
\* handler is registered for
NoPoolReturn(st) == END

----------------------------------------------------------------------------
(* Handlers *)

\* /start is handled before conv_handler sees it: the conversation stays
start(u, text) ==
    /\ IsCommand(text, CmdStart)
    /\ Reply(<<"menu">>)
    /\ UNCHANGED <<videos, stage, current_video, ADMIN_IDS, db_pool, accepted>>

\* mutant: the button starts a submission in every conversation state
SendVideoPromptAnyStage(u) ==
    /\ Answer(<<"links_prompt">>)
    /\ Return(u, WAITING_VIDEO_LINKS)
    /\ UNCHANGED <<videos, current_video, ADMIN_IDS, db_pool, accepted>>

\* entry point of conv_handler: only outside a conversation
send_video_prompt(u) ==
    /\ stage[u] = END
    /\ Answer(<<"links_prompt">>)
    /\ Return(u, WAITING_VIDEO_LINKS)
    /\ UNCHANGED <<videos, current_video, ADMIN_IDS, db_pool, accepted>>

\* links = [link.strip() for link in update.message.text.split()]
SubmittedLinks(text) == [i \in DOMAIN Split(text) |-> Strip(Split(text)[i])]

\* mutant: only the first link is matched against URL_REGEX
InvalidLinksFirst(links) ==
    IF links # <<>> /\ ~URL_REGEX(links[1]) THEN <<links[1]>> ELSE <<>>

\* invalid_links = [link for link in links if not URL_REGEX.match(link)]
InvalidLinks(links) == SelectSeq(links, LAMBDA l : ~URL_REGEX(l))

\* links and invalid_links of every text, computed once
LinksOf == [t \in Texts |-> SubmittedLinks(t)]
InvalidOf == [t \in Texts |-> InvalidLinks(LinksOf[t])]

\* a row created now starts a new tally
TallyAfterInsert(rows) ==
    [l \in Links |->
        IF (\E r \in rows : r.link = l) /\ ~(\E r \in videos : r.link = l)
        THEN NoTally ELSE accepted[l]]

receive_video_links(u, text) ==
    /\ stage[u] = WAITING_VIDEO_LINKS
    /\ TextFilter(text)
    /\ UNCHANGED <<current_video, ADMIN_IDS, db_pool>>
    /\ IF text = <<>>
       THEN /\ Reply(<<"no_text">>)
            /\ Return(u, WAITING_VIDEO_LINKS)
            /\ UNCHANGED <<videos, accepted>>
       ELSE IF InvalidOf[text] # <<>>
       THEN /\ Send("message", <<"invalid_links">>, InvalidOf[text], {})
            /\ Return(u, WAITING_VIDEO_LINKS)
            /\ UNCHANGED <<videos, accepted>>
       ELSE IF ~db_pool
       THEN /\ Reply(<<"db_error">>)
            /\ Return(u, NoPoolReturn(WAITING_VIDEO_LINKS))
            /\ UNCHANGED <<videos, accepted>>
       ELSE /\ videos' = InsertLinks(videos, LinksOf[text])
            /\ accepted' = TallyAfterInsert(videos')
            /\ Reply(<<"links_saved", "more_or_menu">>)
            /\ Return(u, END)

\* mutant: after a comment the handler offers no further video and ends
AskOnceThenEnd(u, rows, via, said) ==
    \E video \in SelectUnrated(rows) :
        IF video = None \/ via = "message"
        THEN /\ Send(via, said \o <<"all_rated">>, <<>>, {})
             /\ Return(u, END)
             /\ UNCHANGED current_video
        ELSE /\ current_video' = [current_video EXCEPT ![u] = video]
             /\ Send(via, said \o <<"rate_prompt">>, <<video>>, {})
             /\ Return(u, WAITING_SCORE)

\* ask_for_rating on the rows the SELECT sees, after the handler has sent
\* said; via is how the update came: update.callback_query or update.message
ask_for_rating(u, rows, via, said) ==
    \E video \in SelectUnrated(rows) :
        IF video = None
        THEN /\ Send(via, said \o <<"all_rated">>, <<>>, {})
             /\ Return(u, END)
             /\ UNCHANGED current_video
        ELSE /\ current_video' = [current_video EXCEPT ![u] = video]
             /\ Send(via, said \o <<"rate_prompt">>, <<video>>, {})
             /\ Return(u, WAITING_SCORE)

\* entry point of conv_handler: only outside a conversation
start_review(u) ==
    /\ stage[u] = END
    /\ UNCHANGED <<videos, ADMIN_IDS, db_pool, accepted>>
    /\ IF ~db_pool
       THEN /\ Answer(<<"db_error">>)
            /\ Return(u, NoPoolReturn(END))
            /\ UNCHANGED current_video
       ELSE ask_for_rating(u, videos, "callback", <<>>)

\* mutant: only rating > 10 raises
ScoreRejectedAbove(text) ==
    \/ IntRaises(text)
    \/ IntValue(text) > MaxRating

\* mutant: only rating < 1 raises
ScoreRejectedBelow(text) ==
    \/ IntRaises(text)
    \/ IntValue(text) < MinRating

\* the try block of receive_rating raises ValueError
ScoreRejected(text) ==
    \/ IntRaises(text)
    \/ IntValue(text) < MinRating
    \/ IntValue(text) > MaxRating

\* the UPDATE of receive_rating counts one more score for an existing row
TallyAfterRating(rating, link) ==
    [l \in Links |->
        IF l = link /\ (\E r \in videos : r.link = l)
        THEN [n |-> accepted[l].n + 1, sum |-> accepted[l].sum + rating]
        ELSE accepted[l]]

\* the outcome of the try block, and the rating, of every text, computed once
RejectedOf == [t \in Texts |-> ScoreRejected(t)]
RatingOf == [t \in Texts |-> IF ScoreRejected(t) THEN 0 ELSE IntValue(t)]

receive_rating(u, text) ==
    /\ stage[u] = WAITING_SCORE
    /\ TextFilter(text)
    /\ \A r \in videos : r.link = current_video[u] => r.ratings_count < MaxRatings
    /\ UNCHANGED <<current_video, ADMIN_IDS, db_pool>>
    /\ IF RejectedOf[text]
       THEN /\ Reply(<<"score_error">>)
            /\ Return(u, WAITING_SCORE)
            /\ UNCHANGED <<videos, accepted>>
       ELSE IF ~db_pool
       THEN /\ Reply(<<"db_error">>)
            /\ Return(u, NoPoolReturn(WAITING_SCORE))
            /\ UNCHANGED <<videos, accepted>>
       ELSE /\ videos' = UpdateRating(videos, RatingOf[text], current_video[u])
            /\ accepted' = TallyAfterRating(RatingOf[text], current_video[u])
            /\ Reply(<<"comment_prompt">>)
            /\ Return(u, WAITING_COMMENT)

\* len(comment) < 15
CommentRejected(comment) == Len(comment) < MinComment

\* comment = update.message.text.strip(), of every text, computed once
CommentOf == [t \in Texts |-> Strip(t)]
ShortOf == [t \in Texts |-> CommentRejected(CommentOf[t])]

receive_comment(u, text) ==
    /\ stage[u] = WAITING_COMMENT
    /\ TextFilter(text)
    /\ \A r \in videos : r.link = current_video[u] => Len(r.comments) < MaxComments
    /\ UNCHANGED <<ADMIN_IDS, db_pool, accepted>>
    /\ IF ShortOf[text]
       THEN /\ Reply(<<"comment_too_short">>)
            /\ Return(u, WAITING_COMMENT)
            /\ UNCHANGED <<videos, current_video>>
       ELSE IF ~db_pool
       THEN /\ Reply(<<"db_error">>)
            /\ Return(u, NoPoolReturn(WAITING_COMMENT))
            /\ UNCHANGED <<videos, current_video>>
       ELSE /\ videos' = AppendComment(videos, CommentOf[text], current_video[u])
            /\ ask_for_rating(u, videos', "message", <<"comment_saved">>)

\* error_handler: the exception of a handler is logged and the chat is told
error_handler ==
    sent' = [via |-> "chat", msgs |-> <<"error">>, links |-> <<>>, doc |-> {}]

\* fallbacks of conv_handler: /cancel inside a conversation.  The callback is
\* a plain lambda, no coroutine function, and the library that calls it is
\* not part of the sources: either what it returns, END, becomes the state of
\* the conversation and nothing is sent, or awaiting what it returns raises
\* TypeError, the conversation stays as it is and error_handler answers
cancel(u, text) ==
    /\ stage[u] # END
    /\ IsCommand(text, CmdCancel)
    /\ UNCHANGED <<videos, current_video, ADMIN_IDS, db_pool, accepted>>
    /\ \/ sent' = Nothing /\ Return(u, END)
       \/ error_handler /\ Return(u, stage[u])

\* no handler took the update and nothing was sent
Unhandled == [via |-> "unhandled", msgs |-> <<>>, links |-> <<>>, doc |-> {}]

\* a message without text (a photo, a sticker): filters.TEXT keeps it from
\* the handlers of the three states, it is no command, and the handlers
\* outside conv_handler are registered for buttons and commands only
no_text_message(u) ==
    /\ sent' = Unhandled
    /\ UNCHANGED <<videos, stage, current_video, ADMIN_IDS, db_pool, accepted>>

\* the buttons outside conv_handler are handled in every conversation state
download(u) ==
    /\ UNCHANGED <<videos, stage, current_video, ADMIN_IDS, db_pool, accepted>>
    /\ IF ~IsAdmin(u) THEN Answer(<<"no_access">>)
       ELSE IF ~db_pool THEN Answer(<<"db_error">>)
       ELSE IF videos = {} THEN Answer(<<"table_empty">>)
       ELSE Send("callback", <<"document">>, <<>>, videos)

clear_table(u) ==
    /\ UNCHANGED <<stage, current_video, ADMIN_IDS, db_pool>>
    /\ IF ~IsAdmin(u)
       THEN Answer(<<"no_access">>) /\ UNCHANGED <<videos, accepted>>
       ELSE IF ~db_pool
       THEN Answer(<<"db_error">>) /\ UNCHANGED <<videos, accepted>>
       ELSE /\ videos' = Truncate(videos)
            /\ accepted' = [l \in Links |-> NoTally]
            /\ Answer(<<"table_cleared">>)

back_to_menu(u) ==
    /\ Answer(<<"menu">>)
    /\ UNCHANGED <<videos, stage, current_video, ADMIN_IDS, db_pool, accepted>>

help_section(u) ==
    /\ Answer(<<"help">>)
    /\ UNCHANGED <<videos, stage, current_video, ADMIN_IDS, db_pool, accepted>>

\* /add_admin reaches its handler when conv_handler does not take the message
add_admin(u, text) ==
    /\ IsCommand(text, CmdAddAdmin)
    /\ UNCHANGED <<videos, stage, current_video, db_pool, accepted>>
    /\ IF ~IsAdmin(u)
       THEN Reply(<<"not_allowed">>) /\ UNCHANGED ADMIN_IDS
       ELSE IF Args(text) = <<>>
       THEN Reply(<<"usage">>) /\ UNCHANGED ADMIN_IDS
       ELSE IF IntRaises(Args(text)[1])
       THEN Reply(<<"bad_id">>) /\ UNCHANGED ADMIN_IDS
       ELSE IF IntValue(Args(text)[1]) \in Range(ADMIN_IDS)
       THEN Reply(<<"already_admin">>) /\ UNCHANGED ADMIN_IDS
       ELSE /\ ADMIN_IDS' = Append(ADMIN_IDS, IntValue(Args(text)[1]))
            /\ Reply(<<"admin_added">>)

\* one update of user u, given to the first handler registered for it
Update(u) ==
    \/ \E text \in CommandTexts : start(u, text)
    \/ send_video_prompt(u)
    \/ \E text \in LinkTexts : receive_video_links(u, text)
    \/ start_review(u)
    \/ \E text \in ScoreTexts : receive_rating(u, text)
    \/ \E text \in CommentTexts : receive_comment(u, text)
    \/ \E text \in CommandTexts : cancel(u, text)
    \/ no_text_message(u)
    \/ download(u)
    \/ clear_table(u)
    \/ back_to_menu(u)
    \/ help_section(u)
    \/ \E text \in CommandTexts : add_admin(u, text)

Next == \E u \in Users : Update(u)

Spec == Init /\ [][Next]_vars

----------------------------------------------------------------------------
(* The rating loop when no more links are submitted *)

\* the table after the batch of LinkA and LinkB was saved, nobody in a
\* conversation
LiveInit ==
    /\ videos = {NewRow(LinkA), NewRow(LinkB)}
    /\ stage = [u \in Users |-> END]
    /\ current_video = [u \in Users |-> None]
    /\ ADMIN_IDS = <<1>>
    /\ db_pool = TRUE
    /\ sent = [via |-> "message", msgs |-> <<"links_saved", "more_or_menu">>,
               links |-> <<>>, doc |-> {}]
    /\ accepted = [l \in Links |-> NoTally]

\* one update of user u other than a submission of links
LiveUpdate(u) ==
    \/ \E text \in CommandTexts : start(u, text)
    \/ start_review(u)
    \/ \E text \in ScoreTexts : receive_rating(u, text)
    \/ \E text \in CommentTexts : receive_comment(u, text)
    \/ \E text \in CommandTexts : cancel(u, text)
    \/ no_text_message(u)
    \/ download(u)
    \/ clear_table(u)
    \/ back_to_menu(u)
    \/ help_section(u)
    \/ \E text \in CommandTexts : add_admin(u, text)

LiveNext == \E u \in Users : LiveUpdate(u)

\* user u answers the prompt for a score with an integer in 1..10
ScoreAnswered(u) ==
    \E text \in ScoreTexts :
        receive_rating(u, text) /\ stage'[u] = WAITING_COMMENT

\* user u answers the prompt for a comment with at least 15 characters
CommentAnswered(u) ==
    \E text \in CommentTexts :
        receive_comment(u, text) /\ "comment_saved" \in Range(sent'.msgs)

\* every user who is asked for a score or for a comment eventually gives a
\* valid one, and every update sent is handled
LiveSpec ==
    /\ LiveInit
    /\ [][LiveNext]_vars
    /\ \A u \in Users :
          WF_vars(ScoreAnswered(u)) /\ WF_vars(CommentAnswered(u))

----------------------------------------------------------------------------
(* Claims *)

HasRow(rows, l) == \E r \in rows : r.link = l

\* C1: in every reachable state every row's avg_score is total_score /
\* ratings_count when ratings_count > 0, and 0 when ratings_count = 0
AvgIsTotalOverCount ==
    \A r \in videos :
        r.avg_score = IF r.ratings_count > 0
                      THEN FloatDiv(r.total_score, r.ratings_count)
                      ELSE FloatZero

\* two users have rated the same row 1 and 10: its average is 11/2
AvgOfTwoRatings ==
    \E r \in videos :
        r.ratings_count = 2 /\ r.total_score = 11 /\ r.avg_score = <<11, 2>>

\* C2: no lost updates: every row counts exactly the scores receive_rating
\* wrote for it while it existed, and totals exactly their sum, whichever
\* users wrote them and in whichever order
NoLostUpdates ==
    \A r \in videos :
        /\ r.ratings_count = accepted[r.link].n
        /\ r.total_score = accepted[r.link].sum

\* both users were offered the same row and both have scored it
TwoRatersOneVideo ==
    \E r \in videos :
        /\ \A u \in Users :
              stage[u] = WAITING_COMMENT /\ current_video[u] = r.link
        /\ accepted[r.link].n = 2
        /\ r.ratings_count = 2

\* no two rows have the same link
UniqueLinks == \A r1, r2 \in videos : r1.link = r2.link => r1 = r2

\* a step of receive_video_links leaves every existing row as it is, creates
\* rows with zero aggregates only for submitted links that had no row and,
\* when the batch is saved, leaves a row for every submitted link
InsertIsIdempotent ==
    \A u \in Users : \A text \in LinkTexts :
        receive_video_links(u, text) =>
            /\ videos \subseteq videos'
            /\ \A r \in videos' \ videos :
                  /\ r = NewRow(r.link)
                  /\ ~HasRow(videos, r.link)
                  /\ \E i \in DOMAIN SplitOf[text] : SplitOf[text][i] = r.link
            /\ "links_saved" \in Range(sent'.msgs) =>
                  \A i \in DOMAIN SplitOf[text] : HasRow(videos', SplitOf[text][i])

\* C3: link insertion is idempotent and keeps links unique
LinkInsertionIdempotent == []UniqueLinks /\ [][InsertIsIdempotent]_vars

\* links were saved (every saved batch holds LinkA) while the row of LinkA
\* was already rated: a resubmission of an existing link
ResubmittedRatedLink ==
    /\ sent.msgs = <<"links_saved", "more_or_menu">>
    /\ \E r \in videos : r.link = LinkA /\ r.ratings_count > 0

\* C4: a batch with a token that is no well-formed URL creates no row, leaves
\* the table as it is and leaves the user waiting for links
BatchAllOrNothing ==
    [][\A u \in Users : \A text \in LinkTexts :
          (/\ receive_video_links(u, text)
           /\ \E i \in DOMAIN SplitOf[text] : ~URL_REGEX(SplitOf[text][i]))
          => /\ videos' = videos
             /\ stage[u] = WAITING_VIDEO_LINKS
             /\ stage'[u] = WAITING_VIDEO_LINKS]_vars

\* the batch of LinkA and a malformed token was rejected: only the malformed
\* token is listed, and LinkA has no row
MixedBatchRejected ==
    /\ sent.msgs = <<"invalid_links">>
    /\ sent.links = <<BadToken>>
    /\ ~HasRow(videos, LinkA)
    /\ \E u \in Users : stage[u] = WAITING_VIDEO_LINKS

\* ask_for_rating has run in this step for user u, on the rows of videos'
AskedForRating(u) ==
    \/ start_review(u) /\ db_pool
    \/ \E text \in CommentTexts :
          receive_comment(u, text) /\ "comment_saved" \in Range(sent'.msgs)

\* C5: the video ask_for_rating offers is unrated when it is selected, and
\* when no row is unrated it offers none, says that all are rated and ends
\* the conversation
OfferedVideoIsUnrated ==
    /\ [][\A u \in Users :
          AskedForRating(u) =>
            IF \E r \in videos' : r.ratings_count = 0
            THEN /\ stage'[u] = WAITING_SCORE
                 /\ \E r \in videos' :
                       r.link = current_video'[u] /\ r.ratings_count = 0
            ELSE /\ stage'[u] = END
                 /\ "all_rated" \in Range(sent'.msgs)
                 /\ current_video'[u] = current_video[u]]_vars
    /\ [][\A u \in Users :
             current_video'[u] # current_video[u] =>
                \E r \in videos' :
                    r.link = current_video'[u] /\ r.ratings_count = 0]_vars

\* a user was offered an unrated row while a rated row existed
OfferedAmongRated ==
    \E u \in Users :
        /\ stage[u] = WAITING_SCORE
        /\ "rate_prompt" \in Range(sent.msgs)
        /\ sent.links = <<current_video[u]>>
        /\ \E r \in videos : r.link = current_video[u] /\ r.ratings_count = 0
        /\ \E r \in videos : r.ratings_count > 0

StaleTargetFails ==
    [][\A u \in Users : \A text \in CommentTexts :
          (/\ receive_comment(u, text)
           /\ Len(Strip(text)) >= MinComment
           /\ ~HasRow(videos, current_video[u]))
          => /\ stage'[u] = END
             /\ "comment_saved" \notin Range(sent'.msgs)]_vars

\* C8: download and clear_table by a user who is not in ADMIN_IDS answer
\* with the denial, hand out no rows, and change neither the table nor a stage
AdminGate ==
    [][\A u \in Users :
          ((download(u) \/ clear_table(u)) /\ u \notin Range(ADMIN_IDS))
          => /\ sent'.msgs = <<"no_access">>
             /\ sent'.doc = {}
             /\ videos' = videos
             /\ stage' = stage]_vars

\* a denial was sent while the table had rows and a conversation was open
DeniedWithRows ==
    /\ sent.msgs = <<"no_access">>
    /\ videos # {}
    /\ \E u \in Users : stage[u] # END

\* C9: a text that is no integer in 1..10 leaves the user waiting for the
\* score, a comment shorter than 15 characters leaves the user waiting for
\* the comment; both send an error and change neither the table nor
\* current_video
ValidationErrorsStay ==
    [][\A u \in Users :
          /\ \A text \in ScoreTexts :
                (/\ receive_rating(u, text)
                 /\ (IntRaises(text) \/ IntValue(text) \notin MinRating..MaxRating))
                => /\ stage'[u] = WAITING_SCORE
                   /\ sent'.msgs = <<"score_error">>
                   /\ videos' = videos
                   /\ current_video' = current_video
          /\ \A text \in CommentTexts :
                (receive_comment(u, text) /\ Len(text) < MinComment)
                => /\ stage'[u] = WAITING_COMMENT
                   /\ sent'.msgs = <<"comment_too_short">>
                   /\ videos' = videos
                   /\ current_video' = current_video]_vars

\* a score was refused: the user still waits for the score of an unrated row
ScoreErrorStays ==
    /\ sent.msgs = <<"score_error">>
    /\ \E u \in Users : \E r \in videos :
          /\ stage[u] = WAITING_SCORE
          /\ current_video[u] = r.link
          /\ r.ratings_count = 0

\* user u's handler for text ran in this step, past its validation
PastValidation(u, text) ==
    \/ /\ text \in LinkTexts
       /\ receive_video_links(u, text)
       /\ \A i \in DOMAIN SplitOf[text] : URL_REGEX(SplitOf[text][i])
    \/ /\ text \in ScoreTexts
       /\ receive_rating(u, text)
       /\ ~IntRaises(text)
       /\ IntValue(text) \in MinRating..MaxRating
    \/ /\ text \in CommentTexts
       /\ receive_comment(u, text)
       /\ Len(Strip(text)) >= MinComment

RowOf(rows, l) == CHOOSE r \in rows : r.link = l

\* the links of rows
LinksIn(rows) == {r.link : r \in rows}

ListedEdges ==
    { <<END, WAITING_VIDEO_LINKS>>,
      <<WAITING_VIDEO_LINKS, WAITING_VIDEO_LINKS>>, <<WAITING_VIDEO_LINKS, END>>,
      <<END, END>>, <<END, WAITING_SCORE>>,
      <<WAITING_SCORE, WAITING_SCORE>>, <<WAITING_SCORE, WAITING_COMMENT>>,
      <<WAITING_COMMENT, WAITING_COMMENT>>, <<WAITING_COMMENT, WAITING_SCORE>>,
      <<WAITING_COMMENT, END>> }

Unrated(rows) == {r.link : r \in {x \in rows : x.ratings_count = 0}}

\* C14: the step that accepts a comment of at least 15 characters confirms
\* it and re-enters the rating loop on the table as the step leaves it: when
\* a row is unrated the user waits for a score for one of the unrated rows,
\* which is shown in the prompt; when none is, and only then, the user is
\* Idle and is told that all are rated
CommentReentersLoop ==
    [][\A u \in Users : \A text \in CommentTexts :
          (/\ receive_comment(u, text)
           /\ db_pool
           /\ Len(Strip(text)) >= MinComment)
          => /\ sent'.msgs[1] = "comment_saved"
             /\ stage'[u] \in {WAITING_SCORE, END}
             /\ stage'[u] = WAITING_SCORE <=> Unrated(videos') # {}
             /\ stage'[u] = WAITING_SCORE =>
                   /\ current_video'[u] \in Unrated(videos')
                   /\ sent'.msgs = <<"comment_saved", "rate_prompt">>
                   /\ sent'.links = <<current_video'[u]>>
             /\ stage'[u] = END =>
                   /\ sent'.msgs = <<"comment_saved", "all_rated">>
                   /\ current_video'[u] = current_video[u]]_vars

\* a comment was saved and its author was offered the next video, another
\* one than the video just rated
CommentThenNextVideo ==
    /\ sent.msgs = <<"comment_saved", "rate_prompt">>
    /\ \E u \in Users :
          /\ stage[u] = WAITING_SCORE
          /\ sent.links = <<current_video[u]>>
          /\ current_video[u] \in Unrated(videos)
    /\ \E r \in videos : r.ratings_count = 1 /\ r.comments = <<LinkB>>

\* clear_table ran for user u in this step, past the check of ADMIN_IDS and
\* with a pool
AdminCleared(u) ==
    /\ clear_table(u)
    /\ u \in Range(ADMIN_IDS)
    /\ db_pool

\* C15: a step that is not clear_table for a user in ADMIN_IDS keeps every
\* link of the table; clear_table for a user in ADMIN_IDS leaves no row,
\* confirms it, and leaves every user's stage as it is
RowsRemovedOnlyByAdminClear ==
    [][/\ (\A u \in Users : ~AdminCleared(u))
          => LinksIn(videos) \subseteq LinksIn(videos')
       /\ \A u \in Users :
             AdminCleared(u)
             => /\ videos' = {}
                /\ sent'.msgs = <<"table_cleared">>
                /\ stage' = stage]_vars

\* the table was cleared while a user was waiting for the comment to a rating
ClearedDuringRating ==
    /\ sent.msgs = <<"table_cleared">>
    /\ videos = {}
    /\ \E u \in Users : stage[u] = WAITING_COMMENT

\* C16: the handler of an update of user u leaves the stage and the
\* current_video of every other user as they are: a step that changes the
\* stage or the current_video of user v is no update of another user
SessionsIsolated ==
    [][\A v \in Users :
          (stage'[v] # stage[v] \/ current_video'[v] # current_video[v])
          => \A u \in Users \ {v} : ~Update(u)]_vars

\* one user is asked for a comment while another is asked for links, and
\* only the first holds a video
UsersInDifferentStages ==
    \E u, v \in Users :
        /\ stage[u] = WAITING_COMMENT
        /\ current_video[u] # None
        /\ stage[v] = WAITING_VIDEO_LINKS
        /\ current_video[v] = None

\* C17: a message without text sent while the bot waits for links is
\* answered with an error, creates no row, is not confirmed as saved and
\* leaves the user waiting for links
EmptyTextRejected ==
    [][\A u \in Users :
          (no_text_message(u) /\ stage[u] = WAITING_VIDEO_LINKS)
          => /\ sent'.msgs # <<>>
             /\ "links_saved" \notin Range(sent'.msgs)
             /\ videos' = videos
             /\ stage'[u] = WAITING_VIDEO_LINKS]_vars

\* C18: in every reachable state every row has ratings_count >= 0 and
\* ratings_count <= total_score <= 10 * ratings_count
TotalWithinCountBounds ==
    \A r \in videos :
        /\ r.ratings_count >= 0
        /\ r.ratings_count * MinRating <= r.total_score
        /\ r.total_score <= MaxRating * r.ratings_count

\* both bounds are met: a row rated 10 twice, and a row rated 1 twice
BothBoundsMet ==
    /\ \E r \in videos : r.ratings_count = 2 /\ r.total_score = 20
    /\ \E r \in videos : r.ratings_count = 2 /\ r.total_score = 2

\* /cancel of user u ends the conversation of u in this step
Cancelled(u) ==
    \E text \in CommandTexts : cancel(u, text) /\ stage'[u] = END

\* user u is in the rating loop
InLoop(u) == stage[u] \in {WAITING_SCORE, WAITING_COMMENT}

\* C19: when no links are submitted and every prompt is answered with a
\* valid score or comment, a user who from some point on does not cancel
\* does not stay in the rating loop: from every later state in the loop the
\* user reaches Idle, told that all videos are rated, whatever the other
\* user rates, comments, cancels or clears in between; the loop is left in
\* no other way than by that message or by /cancel; and the unrated videos
\* never become more, while the video a user is asked to comment is no
\* longer one of them
RatingLoopTerminates ==
    /\ [](\A u \in Users :
            stage[u] = WAITING_COMMENT => current_video[u] \notin Unrated(videos))
    /\ [][Unrated(videos') \subseteq Unrated(videos)]_vars
    /\ \A u \in Users :
          <>[][~Cancelled(u)]_vars
          => <>[](InLoop(u) =>
                    <>(stage[u] = END /\ "all_rated" \in Range(sent.msgs)))
    /\ [][\A u \in Users :
             (InLoop(u) /\ ~InLoop(u)' /\ ~Cancelled(u))
             => stage'[u] = END /\ "all_rated" \in Range(sent'.msgs)]_vars

\* a user left the loop after the last comment: every row is rated
LoopLeftAllRated ==
    /\ sent.msgs = <<"comment_saved", "all_rated">>
    /\ \E u \in Users : stage[u] = END /\ current_video[u] # None
    /\ videos # {}
    /\ \A r \in videos : r.ratings_count > 0

\* C20: ADMIN_IDS only grows; it changes only in an add_admin step of a user
\* who is in it, by the id of the command appended; add_admin of a user who
\* is not in it leaves it; and a step in which clear_table empties the table
\* or download hands out the rows is the step of a user who is in it
NoPrivilegeEscalation ==
    [][/\ Range(ADMIN_IDS) \subseteq Range(ADMIN_IDS')
       /\ ADMIN_IDS' # ADMIN_IDS =>
             \E u \in Range(ADMIN_IDS) : \E text \in CommandTexts :
                 /\ add_admin(u, text)
                 /\ ADMIN_IDS' = ADMIN_IDS \o <<IntValue(Args(text)[1])>>
       /\ \A u \in Users \ Range(ADMIN_IDS) :
             /\ \A text \in CommandTexts :
                   add_admin(u, text) => ADMIN_IDS' = ADMIN_IDS
             /\ clear_table(u) => videos' = videos
             /\ download(u) => sent'.doc = {}]_vars

\* user 2 was made an administrator by user 1 while the table had rows
AdminAddedByAdmin ==
    /\ ADMIN_IDS = <<1, 2>>
    /\ sent.msgs = <<"admin_added">>
    /\ videos # {}

====
